---- MODULE Spec2Model ----
(***************************************************************************)
(* A model of the SDES class (src/unnamed/part_000): the table and S-box   *)
(* generators, the key schedule, the round function, the block cipher and  *)
(* the text codec.  Arrays are sequences (index i of the code is i + 1     *)
(* here), bits are 0 / 1, and a read outside an array is Undef, as a       *)
(* JavaScript read of a missing element is undefined.                      *)
(***************************************************************************)
EXTENDS Integers, Sequences, FiniteSets, TLC

VARIABLES key, IP, IPInverse, P10, P8, P4, BOX_1, BOX_2, subKeys,
          call, arg, ret, orig

fields == <<key, IP, IPInverse, P10, P8, P4, BOX_1, BOX_2, subKeys>>
vars   == <<key, IP, IPInverse, P10, P8, P4, BOX_1, BOX_2, subKeys,
            call, arg, ret, orig>>

(***************************************************************************)
(* Bounds of the model.                                                    *)
(***************************************************************************)
\* the random tapes an instance is constructed from: offsets 0..MaxSeedA
MaxSeedA == 0
\* the random tapes an instance is constructed from: strides 0..MaxSeedB
MaxSeedB == 2
\* the random tapes an instance is constructed from: drifts 0..MaxSeedC
MaxSeedC == 1
\* the master keys an instance is constructed from: MaxKeyIdx + 1 of them
MaxKeyIdx == 1
\* the longest text handed to encryptText / decryptText
MaxTextLen == 2

(***************************************************************************)
(* JavaScript values.                                                      *)
(***************************************************************************)
\* undefined: the value of a read outside an array
Undef == -1
\* no call is in progress, nothing to remember
None == <<>>

\* input[index] for a 0-based index held here as idx = index + 1
Get(input, idx) ==
    IF idx \in DOMAIN input THEN input[idx] ELSE Undef

\* ToInt32 of an operand of ^ : undefined becomes 0
ToInt(b) == IF b = Undef THEN 0 ELSE b

\* Array.prototype.slice(from, to), 0-based, end exclusive, clamped
slice(input, from, to) ==
    SubSeq(input, from + 1, IF to < Len(input) THEN to ELSE Len(input))

\* Number.prototype.toString(2) of a non-negative integer, digits as numbers;
\* a failed lookup is carried as a single undefined digit
RECURSIVE toString2(_)
toString2(n) ==
    IF n < 0 THEN <<Undef>>
    ELSE IF n < 2 THEN <<n>>
    ELSE toString2(n \div 2) \o <<n % 2>>

\* String.prototype.padStart(width, "0"): pads, never truncates
padStart(digits, width) ==
    IF Len(digits) >= width THEN digits
    ELSE [i \in 1..(width - Len(digits)) |-> 0] \o digits

\* parseInt(byte, 2) of a string of binary digits
RECURSIVE parseInt2(_)
parseInt2(digits) ==
    IF digits = <<>> THEN 0
    ELSE 2 * parseInt2(SubSeq(digits, 1, Len(digits) - 1)) + digits[Len(digits)]

(***************************************************************************)
(* Generators.  Math.floor(Math.random() * n) is a draw in 0..n-1; the     *)
(* draws a generator consumes are passed in, in the order it makes them.   *)
(***************************************************************************)
RandomInt(n) == 0..(n - 1)

\* a swap that writes array[i] only
swapOverwrite(array, i, j) ==
    [array EXCEPT ![i + 1] = array[j + 1]]

\* [array[i], array[j]] = [array[j], array[i]], i and j 0-based
swap(array, i, j) ==
    [array EXCEPT ![i + 1] = array[j + 1], ![j + 1] = array[i + 1]]

\* the loop of shuffleArray from index i down to 1; js[1] is the draw for i
RECURSIVE shuffleFrom(_, _, _)
shuffleFrom(array, i, js) ==
    IF i <= 0 THEN array
    ELSE shuffleFrom(swap(array, i, js[1]), i - 1, Tail(js))

shuffleArray(array, js) == shuffleFrom(array, Len(array) - 1, js)

\* the draws shuffleArray may make on an array of the given length
ShuffleDraws(length) ==
    IF length <= 1 THEN {<<>>}
    ELSE { js \in [1..(length - 1) -> RandomInt(length)] :
             \A k \in 1..(length - 1) : js[k] \in RandomInt(length - k + 1) }

\* a table that is a shuffle of 1..length
generatePermutationTableBijective(length, fills, js) ==
    shuffleArray([i \in 1..length |-> i], js)

\* a table of 0-based entries: the "+ 1" of the fill loop left out
generatePermutationTableZeroBased(length, fills, js) ==
    shuffleArray([i \in 1..length |-> fills[i]], js)

\* fills[i] is the draw Math.floor(Math.random() * length) of entry i
generatePermutationTable(length, fills, js) ==
    shuffleArray([i \in 1..length |-> fills[i] + 1], js)

\* rowDraws[i] are the draws of the shuffle of row i
generateSBox(rowDraws) ==
    [i \in 1..4 |-> shuffleArray(<<0, 1, 2, 3>>, rowDraws[i])]

getInitialPermutation == [i \in 1..8 |-> i]

\* IPInverse[IP[i] - 1] = i + 1 for i ascending: the last write wins, an
\* entry never written stays a hole
getArrayInverse(ip) ==
    [p \in 1..Len(ip) |->
        IF \E i \in 1..Len(ip) : ip[i] = p
        THEN CHOOSE i \in 1..Len(ip) :
                /\ ip[i] = p
                /\ \A h \in 1..Len(ip) : ip[h] = p => h <= i
        ELSE Undef]

(***************************************************************************)
(* Primitives.                                                             *)
(***************************************************************************)
permute(input, permutationTable) ==
    [i \in 1..Len(permutationTable) |-> Get(input, permutationTable[i])]

circularLeftShift(input, shiftNumber) ==
    slice(input, shiftNumber, Len(input)) \o slice(input, 0, shiftNumber)

\* a key schedule that concatenates the right half before the left one
generateSubKeysRightFirst(k, p10, p8) ==
    LET permutedKey == permute(k, p10)
        left1  == circularLeftShift(slice(permutedKey, 0, 5), 1)
        right1 == circularLeftShift(slice(permutedKey, 5, 10), 1)
        left2  == circularLeftShift(left1, 2)
        right2 == circularLeftShift(right1, 2)
    IN  [key1 |-> permute(right1 \o left1, p8),
         key2 |-> permute(right2 \o left2, p8)]

\* a key schedule whose second shift starts again from the unshifted halves
generateSubKeysShiftFromOriginal(k, p10, p8) ==
    LET permutedKey == permute(k, p10)
        left0  == slice(permutedKey, 0, 5)
        right0 == slice(permutedKey, 5, 10)
        left1  == circularLeftShift(left0, 1)
        right1 == circularLeftShift(right0, 1)
        left2  == circularLeftShift(left0, 2)
        right2 == circularLeftShift(right0, 2)
    IN  [key1 |-> permute(left1 \o right1, p8),
         key2 |-> permute(left2 \o right2, p8)]

generateSubKeys(k, p10, p8) ==
    LET permutedKey == permute(k, p10)
        left1  == circularLeftShift(slice(permutedKey, 0, 5), 1)
        right1 == circularLeftShift(slice(permutedKey, 5, 10), 1)
        left2  == circularLeftShift(left1, 2)
        right2 == circularLeftShift(right1, 2)
    IN  [key1 |-> permute(left1 \o right1, p8),
         key2 |-> permute(left2 \o right2, p8)]

expandAndPermute(right) == permute(right, <<4, 1, 2, 3, 2, 3, 4, 1>>)

\* an exclusive or computed as (a + b) % 2: undefined gives NaN, held here
\* as Undef, where ^ gives a bit
xorByAddition(bits1, bits2) ==
    [i \in 1..Len(bits1) |->
        IF bits1[i] = Undef \/ Get(bits2, i) = Undef THEN Undef
        ELSE (bits1[i] + bits2[i]) % 2]

xor(bits1, bits2) ==
    [i \in 1..Len(bits1) |-> (ToInt(bits1[i]) + ToInt(Get(bits2, i))) % 2]

\* (a << 1) + b on the bits of a nibble
sBoxIndex(hi, lo) == 2 * ToInt(hi) + lo

\* BOX[row][col], rows and columns 0-based
sBoxLookup(box, row, col) ==
    IF row + 1 \in DOMAIN box THEN Get(box[row + 1], col + 1) ELSE Undef

\* an S-box addressed by row = bit0*2 + bit1 and col = bit2*2 + bit3
sBoxRowFromFirstTwoBits(this, input) ==
    LET leftInput  == slice(input, 0, 4)
        rightInput == slice(input, 4, 8)
        row1 == sBoxIndex(Get(leftInput, 1), Get(leftInput, 2))
        col1 == sBoxIndex(Get(leftInput, 3), Get(leftInput, 4))
        row2 == sBoxIndex(Get(rightInput, 1), Get(rightInput, 2))
        col2 == sBoxIndex(Get(rightInput, 3), Get(rightInput, 4))
        sBox1Result == padStart(toString2(sBoxLookup(this.BOX_1, row1, col1)), 2)
        sBox2Result == padStart(toString2(sBoxLookup(this.BOX_2, row2, col2)), 2)
    IN  sBox1Result \o sBox2Result

sBox(this, input) ==
    LET leftInput  == slice(input, 0, 4)
        rightInput == slice(input, 4, 8)
        row1 == sBoxIndex(Get(leftInput, 1), Get(leftInput, 4))
        col1 == sBoxIndex(Get(leftInput, 2), Get(leftInput, 3))
        row2 == sBoxIndex(Get(rightInput, 1), Get(rightInput, 4))
        col2 == sBoxIndex(Get(rightInput, 2), Get(rightInput, 3))
        sBox1Result == padStart(toString2(sBoxLookup(this.BOX_1, row1, col1)), 2)
        sBox2Result == padStart(toString2(sBoxLookup(this.BOX_2, row2, col2)), 2)
    IN  sBox1Result \o sBox2Result

p4Permutation(this, input) ==
    [i \in 1..Len(input) |-> Get(input, Get(this.P4, i))]

\* a round that hands back its halves exchanged
roundSwappingHalves(this, left, right, k) ==
    LET expandedRight == expandAndPermute(right)
        xorResult     == xor(expandedRight, k)
        sBoxResult    == sBox(this, xorResult)
        p4Result      == p4Permutation(this, sBoxResult)
    IN  <<right, xor(left, p4Result)>>

round(this, left, right, k) ==
    LET expandedRight == expandAndPermute(right)
        xorResult     == xor(expandedRight, k)
        sBoxResult    == sBox(this, xorResult)
        p4Result      == p4Permutation(this, sBoxResult)
    IN  <<xor(left, p4Result), right>>

\* an encrypt that does not swap the halves between its rounds
encryptNoSwap(this, value) ==
    LET data == permute(value, this.IP)
        r1   == round(this, slice(data, 0, 4), slice(data, 4, 8), this.subKeys.key1)
        r2   == round(this, r1[1], r1[2], this.subKeys.key2)
    IN  permute(r2[1] \o r2[2], this.IPInverse)

encrypt(this, value) ==
    LET data == permute(value, this.IP)
        r1   == round(this, slice(data, 0, 4), slice(data, 4, 8), this.subKeys.key1)
        r2   == round(this, r1[2], r1[1], this.subKeys.key2)
    IN  permute(r2[1] \o r2[2], this.IPInverse)

\* a decrypt that uses the subkeys in the order of encrypt
decryptSameKeyOrder(this, ciphertext) ==
    LET data == permute(ciphertext, this.IP)
        r1   == round(this, slice(data, 0, 4), slice(data, 4, 8), this.subKeys.key1)
        r2   == round(this, r1[2], r1[1], this.subKeys.key2)
    IN  permute(r2[1] \o r2[2], this.IPInverse)

\* a decrypt that does not swap the halves between its rounds
decryptNoSwap(this, ciphertext) ==
    LET data == permute(ciphertext, this.IP)
        r1   == round(this, slice(data, 0, 4), slice(data, 4, 8), this.subKeys.key2)
        r2   == round(this, r1[1], r1[2], this.subKeys.key1)
    IN  permute(r2[1] \o r2[2], this.IPInverse)

decrypt(this, ciphertext) ==
    LET data == permute(ciphertext, this.IP)
        r1   == round(this, slice(data, 0, 4), slice(data, 4, 8), this.subKeys.key2)
        r2   == round(this, r1[2], r1[1], this.subKeys.key1)
    IN  permute(r2[1] \o r2[2], this.IPInverse)

(***************************************************************************)
(* Text codec.  A string is the sequence of its UTF-16 code units.         *)
(***************************************************************************)
\* a conversion that does not pad a code to 8 digits
RECURSIVE stringToBinaryUnpadded(_)
stringToBinaryUnpadded(input) ==
    IF input = <<>> THEN <<>>
    ELSE toString2(Head(input)) \o stringToBinaryUnpadded(Tail(input))

RECURSIVE stringToBinary(_)
stringToBinary(input) ==
    IF input = <<>> THEN <<>>
    ELSE padStart(toString2(Head(input)), 8) \o stringToBinary(Tail(input))

RECURSIVE binaryToString(_)
binaryToString(input) ==
    IF input = <<>> THEN <<>>
    ELSE <<parseInt2(slice(input, 0, 8))>>
            \o binaryToString(slice(input, 8, Len(input)))

\* a loop that puts each encrypted block in front of those before it
RECURSIVE encryptBlocksPrepending(_, _)
encryptBlocksPrepending(this, bits) ==
    IF bits = <<>> THEN <<>>
    ELSE encryptBlocksPrepending(this, slice(bits, 8, Len(bits)))
            \o encrypt(this, slice(bits, 0, 8))

\* the loop of encryptText over the blocks binaryPlaintext.slice(i, i + 8)
RECURSIVE encryptBlocks(_, _)
encryptBlocks(this, bits) ==
    IF bits = <<>> THEN <<>>
    ELSE encrypt(this, slice(bits, 0, 8))
            \o encryptBlocks(this, slice(bits, 8, Len(bits)))

RECURSIVE decryptBlocks(_, _)
decryptBlocks(this, bits) ==
    IF bits = <<>> THEN <<>>
    ELSE decrypt(this, slice(bits, 0, 8))
            \o decryptBlocks(this, slice(bits, 8, Len(bits)))

encryptText(this, plaintext) ==
    binaryToString(encryptBlocks(this, stringToBinary(plaintext)))

decryptText(this, ciphertext) ==
    binaryToString(decryptBlocks(this, stringToBinary(ciphertext)))

(***************************************************************************)
(* Construction.  The random source is a tape of naturals, one per call of *)
(* Math.random, read in the order the constructor makes its calls; the     *)
(* call at position idx of a tape (a, b, c) yields a + b * idx +           *)
(* c * (idx \div 12), reduced to the range of the draw.                    *)
(***************************************************************************)
Seeds == (0..MaxSeedA) \X (0..MaxSeedB) \X (0..MaxSeedC)

Random(seed, idx, n) == (seed[1] + seed[2] * idx + seed[3] * (idx \div 12)) % n

\* the draws of the fill loop of generatePermutationTable, from tape position off
TapeFills(seed, off, length) ==
    [i \in 1..length |-> Random(seed, off + i - 1, length)]

\* the draws of shuffleArray on an array of the given length
TapeShuffle(seed, off, length) ==
    [k \in 1..(length - 1) |-> Random(seed, off + k - 1, length - k + 1)]

TapeTable(seed, off, length) ==
    generatePermutationTable(length, TapeFills(seed, off, length),
                             TapeShuffle(seed, off + length, length))

TapeSBox(seed, off) ==
    generateSBox([i \in 1..4 |-> TapeShuffle(seed, off + 3 * (i - 1), 4)])

\* a constructor with fixed tables and S-boxes, the same for every instance
SDESFixedTables(k, seed) ==
    LET p4  == [i \in 1..4 |-> i]
        p8  == [i \in 1..8 |-> i]
        p10 == [i \in 1..10 |-> i]
        ip  == getInitialPermutation
        box == [i \in 1..4 |-> <<0, 1, 2, 3>>]
    IN  [key |-> k, P4 |-> p4, P8 |-> p8, P10 |-> p10,
         IP |-> ip, IPInverse |-> getArrayInverse(ip),
         BOX_1 |-> box, BOX_2 |-> box,
         subKeys |-> generateSubKeys(k, p10, p8)]

\* new SDES(k): P4, P8, P10, IP, IPInverse, BOX_1, BOX_2, subKeys in this order
SDES(k, seed) ==
    LET p4  == TapeTable(seed, 0, 4)
        p8  == TapeTable(seed, 7, 8)
        p10 == TapeTable(seed, 22, 10)
        ip  == getInitialPermutation
    IN  [key |-> k, P4 |-> p4, P8 |-> p8, P10 |-> p10,
         IP |-> ip, IPInverse |-> getArrayInverse(ip),
         BOX_1 |-> TapeSBox(seed, 41), BOX_2 |-> TapeSBox(seed, 53),
         subKeys |-> generateSubKeys(k, p10, p8)]

\* the instance held in the state
This ==
    [key |-> key, P4 |-> P4, P8 |-> P8, P10 |-> P10, IP |-> IP,
     IPInverse |-> IPInverse, BOX_1 |-> BOX_1, BOX_2 |-> BOX_2,
     subKeys |-> subKeys]

(***************************************************************************)
(* Inputs.                                                                 *)
(***************************************************************************)
BitVectors(n) == [1..n -> {0, 1}]

Blocks == BitVectors(8)

\* the key of the demo script
DemoKey == <<0, 0, 0, 1, 0, 1, 0, 0, 1, 1>>

Keys == { padStart(toString2((parseInt2(DemoKey) + 341 * i) % 1024), 10) :
            i \in 0..MaxKeyIdx }

\* code units of the texts: NUL, "v", U+00FF and, beyond one byte, U+012C
\* (9 binary digits) and U+9C40 (16 binary digits)
Chars == {0, 118, 255, 300, 40000}

Texts == UNION { [1..n -> Chars] : n \in 0..MaxTextLen }

(***************************************************************************)
(* The state machine of one instance: construction, then any sequence of   *)
(* calls.  call names the method that returned last, arg its argument and  *)
(* ret its result; orig is the plaintext a ciphertext in ret or arg came   *)
(* from.                                                                   *)
(***************************************************************************)
Constructed(k, seed) ==
    LET c == SDES(k, seed)
    IN  /\ key = c.key
        /\ P4 = c.P4 /\ P8 = c.P8 /\ P10 = c.P10
        /\ IP = c.IP /\ IPInverse = c.IPInverse
        /\ BOX_1 = c.BOX_1 /\ BOX_2 = c.BOX_2
        /\ subKeys = c.subKeys

Idle == call = "idle" /\ arg = None /\ ret = None /\ orig = None

Init == /\ \E k \in Keys, seed \in Seeds : Constructed(k, seed)
        /\ Idle

Encrypt ==
    /\ call = "idle"
    /\ \E value \in Blocks :
          /\ arg' = value
          /\ ret' = encrypt(This, value)
          /\ orig' = value
    /\ call' = "encrypt"
    /\ UNCHANGED fields

\* a decrypt that swaps the stored subkeys in place and runs the rounds of
\* encrypt, leaving them swapped
DecryptSwappingKeys ==
    /\ call = "idle"
    /\ \E ciphertext \in Blocks :
          /\ arg' = ciphertext
          /\ ret' = decrypt(This, ciphertext)
    /\ orig' = None
    /\ call' = "decrypt"
    /\ subKeys' = [key1 |-> subKeys.key2, key2 |-> subKeys.key1]
    /\ UNCHANGED <<key, IP, IPInverse, P10, P8, P4, BOX_1, BOX_2>>

Decrypt ==
    /\ call = "idle"
    /\ \E ciphertext \in Blocks :
          /\ arg' = ciphertext
          /\ ret' = decrypt(This, ciphertext)
    /\ orig' = None
    /\ call' = "decrypt"
    /\ UNCHANGED fields

\* decrypt applied to the block encrypt has just returned
DecryptEncrypted ==
    /\ call = "encrypt"
    /\ arg' = ret
    /\ ret' = decrypt(This, ret)
    /\ call' = "decrypt"
    /\ UNCHANGED <<fields, orig>>

\* encrypt applied to what decrypt returned for an arbitrary block
EncryptDecrypted ==
    /\ call = "decrypt"
    /\ orig = None
    /\ orig' = arg
    /\ arg' = ret
    /\ ret' = encrypt(This, ret)
    /\ call' = "encryptDecrypted"
    /\ UNCHANGED fields

EncryptText ==
    /\ call = "idle"
    /\ \E plaintext \in Texts :
          /\ arg' = plaintext
          /\ ret' = encryptText(This, plaintext)
          /\ orig' = plaintext
    /\ call' = "encryptText"
    /\ UNCHANGED fields

\* decryptText applied to the string encryptText has just returned (the demo)
DecryptEncryptedText ==
    /\ call = "encryptText"
    /\ arg' = ret
    /\ ret' = decryptText(This, ret)
    /\ call' = "decryptText"
    /\ UNCHANGED <<fields, orig>>

DecryptText ==
    /\ call = "idle"
    /\ \E ciphertext \in Texts :
          /\ arg' = ciphertext
          /\ ret' = decryptText(This, ciphertext)
    /\ orig' = None
    /\ call' = "decryptText"
    /\ UNCHANGED fields

\* the caller drops the result; the instance is ready for the next call
Return ==
    /\ call # "idle"
    /\ call' = "idle" /\ arg' = None /\ ret' = None /\ orig' = None
    /\ UNCHANGED fields

Next ==
    \/ Encrypt
    \/ Decrypt
    \/ DecryptEncrypted
    \/ EncryptDecrypted
    \/ EncryptText
    \/ DecryptEncryptedText
    \/ DecryptText
    \/ Return

Spec == Init /\ [][Next]_vars

(***************************************************************************)
(* Two instances of one key: a second instance is constructed from the key *)
(* of the first and decrypts what the first has just encrypted.            *)
(***************************************************************************)
\* the instances constructed from the key of the demo script
InitDemoKey == /\ \E seed \in Seeds : Constructed(DemoKey, seed)
               /\ Idle

CrossDecrypt ==
    /\ call = "encrypt"
    /\ \E seed \in Seeds :
          /\ arg' = ret
          /\ ret' = decrypt(SDES(key, seed), ret)
    /\ call' = "crossDecrypt"
    /\ UNCHANGED <<fields, orig>>

NextInterop ==
    \/ Encrypt
    \/ CrossDecrypt
    \/ Return

SpecInterop == InitDemoKey /\ [][NextInterop]_vars

(***************************************************************************)
(* The key schedule as a function of the key: every 10-bit key, the tables *)
(* of every tape.                                                          *)
(***************************************************************************)
InitKeys == /\ \E k \in BitVectors(10), seed \in Seeds : Constructed(k, seed)
            /\ Idle

GenerateSubKeysCall ==
    /\ call = "idle"
    /\ arg' = None
    /\ ret' = generateSubKeys(key, P10, P8)
    /\ orig' = None
    /\ call' = "generateSubKeys"
    /\ UNCHANGED fields

NextKeys ==
    \/ GenerateSubKeysCall
    \/ Return

SpecKeys == InitKeys /\ [][NextKeys]_vars

(***************************************************************************)
(* The key schedule of an instance run on another master key: the P10 and  *)
(* P8 of the instance, every 10-bit key.                                   *)
(***************************************************************************)
OtherKeySubKeysCall ==
    /\ call = "idle"
    /\ \E k \in BitVectors(10) :
          /\ arg' = k
          /\ ret' = generateSubKeys(k, P10, P8)
    /\ orig' = None
    /\ call' = "otherKeySubKeys"
    /\ UNCHANGED fields

NextKeyPairs ==
    \/ OtherKeySubKeysCall
    \/ Return

SpecKeyPairs == Init /\ [][NextKeyPairs]_vars

(***************************************************************************)
(* The round function on every pair of halves and every subkey, with the   *)
(* P4 and the S-boxes of the instance.                                     *)
(***************************************************************************)
RoundCall ==
    /\ call = "idle"
    /\ \E left \in BitVectors(4), right \in BitVectors(4), k \in BitVectors(8) :
          /\ arg' = <<left, right, k>>
          /\ ret' = round(This, left, right, k)
    /\ orig' = None
    /\ call' = "round"
    /\ UNCHANGED fields

\* round applied again, with the same subkey, to the halves it has just
\* returned, in the order it returned them
RoundAgain ==
    /\ call = "round"
    /\ arg' = <<ret[1], ret[2], arg[3]>>
    /\ ret' = round(This, ret[1], ret[2], arg[3])
    /\ orig' = <<arg[1], arg[2]>>
    /\ call' = "roundAgain"
    /\ UNCHANGED fields

NextRound ==
    \/ RoundCall
    \/ RoundAgain
    \/ Return

SpecRound == InitDemoKey /\ [][NextRound]_vars

(***************************************************************************)
(* The generators under every sequence of draws.                           *)
(***************************************************************************)
\* the longest array handed to shuffleArray
MaxShuffleLen == 4

ShuffleInputs == UNION { [1..n -> 0..3] : n \in 0..MaxShuffleLen }

InitGen == /\ Constructed(DemoKey, <<0, 1, 0>>)
           /\ Idle

ShuffleArrayCall ==
    /\ call = "idle"
    /\ \E array \in ShuffleInputs :
          \E js \in ShuffleDraws(Len(array)) :
             /\ arg' = array
             /\ ret' = shuffleArray(array, js)
    /\ orig' = None
    /\ call' = "shuffleArray"
    /\ UNCHANGED fields

GenerateSBoxCall ==
    /\ call = "idle"
    /\ \E rowDraws \in [1..4 -> ShuffleDraws(4)] :
          ret' = generateSBox(rowDraws)
    /\ arg' = None
    /\ orig' = None
    /\ call' = "generateSBox"
    /\ UNCHANGED fields

\* the lengths the constructor asks tables for
TableLengths == {4, 8, 10}

\* the tape positions a table of SpecGen is drawn from: 0..MaxTapeOffset
MaxTapeOffset == 3

\* the draws <<fills, js>> of a table: all of them for a length up to
\* MaxShuffleLen, those of the tapes for a longer one
TableDraws(length) ==
    IF length <= MaxShuffleLen
    THEN [1..length -> RandomInt(length)] \X ShuffleDraws(length)
    ELSE { <<TapeFills(seed, off, length),
             TapeShuffle(seed, off + length, length)>> :
             seed \in Seeds, off \in 0..MaxTapeOffset }

GeneratePermutationTableCall ==
    /\ call = "idle"
    /\ \E length \in TableLengths :
          \E d \in TableDraws(length) :
             /\ arg' = length
             /\ ret' = generatePermutationTable(length, d[1], d[2])
    /\ orig' = None
    /\ call' = "generatePermutationTable"
    /\ UNCHANGED fields

NextGen ==
    \/ ShuffleArrayCall
    \/ GenerateSBoxCall
    \/ GeneratePermutationTableCall
    \/ Return

SpecGen == InitGen /\ [][NextGen]_vars

(***************************************************************************)
(* Properties.                                                             *)
(***************************************************************************)
\* the instance was constructed with a table that is not a bijection
HasRepeat(table) ==
    \E i, j \in DOMAIN table : i # j /\ table[i] = table[j]

\* the number of positions of seq that hold v
Count(seq, v) == Cardinality({ i \in DOMAIN seq : seq[i] = v })

SingleByte(text) == \A i \in DOMAIN text : text[i] \in 0..255

\* C1: on one instance, whatever its tables, decrypt applied to the block
\* encrypt returned for a block B returns B.
RoundTripBlock ==
    (call = "decrypt" /\ orig # None) => ret = orig

\* a block has gone through encrypt and decrypt of an instance whose P4, P8
\* and P10 all repeat an index, and encrypt had changed it
RoundTripBlockWitness ==
    /\ call = "decrypt" /\ orig # None
    /\ HasRepeat(P4) /\ HasRepeat(P8) /\ HasRepeat(P10)
    /\ arg # orig
    /\ ret = orig

\* C2: on one instance, decryptText applied to the string encryptText
\* returned for a string S of code units 0..255 (the empty string included)
\* returns S.
RoundTripText ==
    (call = "decryptText" /\ orig # None /\ SingleByte(orig)) => ret = orig

\* a text of the longest length, with NUL and U+00FF in it, has gone through
\* encryptText and decryptText, and encryptText had changed it
RoundTripTextWitness ==
    /\ call = "decryptText" /\ orig # None
    /\ Len(orig) = MaxTextLen /\ SingleByte(orig)
    /\ \E i \in DOMAIN orig : orig[i] = 255
    /\ \E i \in DOMAIN orig : orig[i] = 0
    /\ arg # orig
    /\ ret = orig

\* C3: no call changes key, P10, P8, P4, IP, IPInverse, BOX_1, BOX_2 or
\* subKeys: every step of every behaviour leaves all of them as they were.
FieldsNeverChange ==
    [][/\ key' = key
       /\ P10' = P10 /\ P8' = P8 /\ P4' = P4
       /\ IP' = IP /\ IPInverse' = IPInverse
       /\ BOX_1' = BOX_1 /\ BOX_2' = BOX_2
       /\ subKeys' = subKeys]_vars

\* encrypt and then decrypt have returned and the subkeys are still those
\* the key schedule derives from the key
FieldsNeverChangeWitness ==
    /\ call = "decrypt" /\ orig # None
    /\ subKeys.key1 # subKeys.key2
    /\ subKeys = generateSubKeys(key, P10, P8)

\* C4: for the key K of the instance, there are two instances the
\* constructor can produce from K and a block B such that the second does
\* not decrypt to B what the first encrypted from B.
NotInteroperable ==
    call = "idle" =>
        \E s1 \in Seeds, s2 \in Seeds :
            \E B \in Blocks :
                decrypt(SDES(key, s2), encrypt(SDES(key, s1), B)) # B

\* a second instance of the same key has decrypted the ciphertext of the
\* first to a block other than the plaintext
NotInteroperableWitness ==
    /\ call = "crossDecrypt"
    /\ ret \in Blocks
    /\ ret # orig

\* C5: whatever the draws, generateSBox returns 4 rows of 4 values, each
\* row holding each of 0, 1, 2, 3 once, and shuffleArray returns an array of
\* the length of its argument in which every value occurs as often as in
\* the argument.
ShufflePermutes ==
    /\ call = "generateSBox" =>
          /\ Len(ret) = 4
          /\ \A r \in 1..4 :
                /\ Len(ret[r]) = 4
                /\ \A v \in 0..3 : Count(ret[r], v) = 1
    /\ call = "shuffleArray" =>
          /\ Len(ret) = Len(arg)
          /\ \A v \in 0..3 : Count(ret, v) = Count(arg, v)

\* generateSBox has returned a box of four different rows, none of them in
\* the order 0, 1, 2, 3
ShufflePermutesSBoxWitness ==
    /\ call = "generateSBox"
    /\ \A r1, r2 \in 1..4 : r1 # r2 => ret[r1] # ret[r2]
    /\ \A r \in 1..4 : ret[r] # <<0, 1, 2, 3>>

\* C7: decrypt of a block on an instance with subkeys (key1, key2) is
\* encrypt of that block on the instance with the subkeys exchanged.
DecryptIsEncryptReversed ==
    call = "decrypt" =>
        ret = encrypt([This EXCEPT !.subKeys = [key1 |-> subKeys.key2,
                                                key2 |-> subKeys.key1]], arg)

\* decrypt has returned on an instance where the order of the subkeys
\* matters: encrypt of the same block gives another result
DecryptIsEncryptReversedWitness ==
    /\ call = "decrypt"
    /\ subKeys.key1 # subKeys.key2
    /\ ret # encrypt(This, arg)

\* the reads of one round are in bounds: every read yields a bit, both
\* S-box reads hit a row and a column and yield a value of two bits
RoundInBounds(this, left, right, k) ==
    LET expandedRight == expandAndPermute(right)
        xorResult     == xor(expandedRight, k)
        l == slice(xorResult, 0, 4)
        r == slice(xorResult, 4, 8)
        row1 == sBoxIndex(Get(l, 1), Get(l, 4))
        col1 == sBoxIndex(Get(l, 2), Get(l, 3))
        row2 == sBoxIndex(Get(r, 1), Get(r, 4))
        col2 == sBoxIndex(Get(r, 2), Get(r, 3))
        sBoxResult    == sBox(this, xorResult)
        p4Result      == p4Permutation(this, sBoxResult)
    IN  /\ left \in BitVectors(4) /\ right \in BitVectors(4)
        /\ k \in BitVectors(8)
        /\ expandedRight \in BitVectors(8)
        /\ xorResult \in BitVectors(8)
        /\ row1 + 1 \in DOMAIN this.BOX_1 /\ col1 + 1 \in DOMAIN this.BOX_1[row1 + 1]
        /\ row2 + 1 \in DOMAIN this.BOX_2 /\ col2 + 1 \in DOMAIN this.BOX_2[row2 + 1]
        /\ sBoxLookup(this.BOX_1, row1, col1) \in 0..3
        /\ sBoxLookup(this.BOX_2, row2, col2) \in 0..3
        /\ sBoxResult \in BitVectors(4)
        /\ \A i \in 1..4 : Get(this.P4, i) \in DOMAIN sBoxResult
        /\ p4Result \in BitVectors(4)

\* the reads of the two rounds of encrypt (ka = key1, kb = key2) or decrypt
\* (ka = key2, kb = key1) and of the two permutations around them
CipherInBounds(this, value, ka, kb) ==
    LET data == permute(value, this.IP)
        r1   == round(this, slice(data, 0, 4), slice(data, 4, 8), ka)
        r2   == round(this, r1[2], r1[1], kb)
    IN  /\ \A i \in DOMAIN this.IP : this.IP[i] \in DOMAIN value
        /\ data \in BitVectors(8)
        /\ RoundInBounds(this, slice(data, 0, 4), slice(data, 4, 8), ka)
        /\ RoundInBounds(this, r1[2], r1[1], kb)
        /\ \A i \in DOMAIN this.IPInverse :
              this.IPInverse[i] \in DOMAIN (r2[1] \o r2[2])

\* C8: on every 8-bit block, every read encrypt and decrypt make is in
\* bounds and the result is 8 values, each 0 or 1.
CipherTotal ==
    /\ call = "encrypt" =>
          /\ CipherInBounds(This, arg, subKeys.key1, subKeys.key2)
          /\ ret \in BitVectors(8)
    /\ call = "decrypt" =>
          /\ CipherInBounds(This, arg, subKeys.key2, subKeys.key1)
          /\ ret \in BitVectors(8)

\* encrypt has returned 8 bits on an instance whose P4 repeats an index
CipherTotalWitness ==
    /\ call = "encrypt"
    /\ HasRepeat(P4)
    /\ arg \in Blocks /\ ret \in Blocks /\ ret # arg

\* circular left shift by n of a half of 5 bits, by index arithmetic
LS(half, n) == [i \in 1..5 |-> half[((i - 1 + n) % 5) + 1]]

\* the subkey P8 selects from left ++ right
Select8(left, right, p8) ==
    LET cat == [i \in 1..10 |-> IF i <= 5 THEN left[i] ELSE right[i - 5]]
    IN  [i \in 1..8 |-> cat[p8[i]]]

\* C9: key1 is P8 of LS1(left) ++ LS1(right) and key2 is P8 of
\* LS3(left) ++ LS3(right), left and right being bits 0-4 and 5-9 of the
\* P10-permuted key; both subkeys have 8 bits.
SubKeysAsSpecified ==
    call = "generateSubKeys" =>
        LET left  == [i \in 1..5 |-> key[P10[i]]]
            right == [i \in 1..5 |-> key[P10[i + 5]]]
        IN  /\ ret.key1 = Select8(LS(left, 1), LS(right, 1), P8)
            /\ ret.key2 = Select8(LS(left, 3), LS(right, 3), P8)
            /\ ret.key1 \in BitVectors(8)
            /\ ret.key2 \in BitVectors(8)
            /\ ret = subKeys

\* the key schedule has returned two different subkeys for the demo key,
\* and a shift of 2 from the unshifted halves would give another key2
SubKeysAsSpecifiedWitness ==
    /\ call = "generateSubKeys"
    /\ key = DemoKey
    /\ ret.key1 # ret.key2
    /\ LET left  == [i \in 1..5 |-> key[P10[i]]]
           right == [i \in 1..5 |-> key[P10[i + 5]]]
       IN  ret.key2 # Select8(LS(left, 2), LS(right, 2), P8)

\* the value of two bits an S-box holds for a nibble
SValue(box, n) == box[2 * n[1] + n[4] + 1][2 * n[2] + n[3] + 1]

\* C10: round(L, R, k) is (L xor P4(S(E(R) xor k)), R).
RoundAsSpecified ==
    call = "round" =>
        LET L == arg[1]
            R == arg[2]
            k == arg[3]
            E == <<4, 1, 2, 3, 2, 3, 4, 1>>
            x == [i \in 1..8 |-> (R[E[i]] + k[i]) % 2]
            v1 == SValue(BOX_1, [i \in 1..4 |-> x[i]])
            v2 == SValue(BOX_2, [i \in 1..4 |-> x[i + 4]])
            S == <<v1 \div 2, v1 % 2, v2 \div 2, v2 % 2>>
        IN  ret = <<[i \in 1..4 |-> (L[i] + S[P4[i]]) % 2], R>>

\* round has returned a left half it changed, with the right half as given
\* and different from the old left half
RoundAsSpecifiedWitness ==
    /\ call = "round"
    /\ ret[1] # arg[1]
    /\ ret[2] = arg[2]
    /\ arg[1] # arg[2]
    /\ ret[1] # arg[2]

\* C11: round applied to the result of round(L, R, k), with the same k and
\* the halves not exchanged in between, returns (L, R).
RoundIsInvolution ==
    call = "roundAgain" => ret = orig

\* round has been applied twice and the first application had changed the
\* left half
RoundIsInvolutionWitness ==
    /\ call = "roundAgain"
    /\ arg[1] # orig[1]
    /\ orig[1] # orig[2]
    /\ HasRepeat(P4)
    /\ ret = orig

\* a table of the given length that repeats an index and misses another
NotBijection(table, length) ==
    /\ HasRepeat(table)
    /\ \E v \in 1..length : Count(table, v) = 0

\* C12: generatePermutationTable(length) returns length entries, each in
\* 1..length, and for each of the lengths 4, 8 and 10 some draws give a
\* table that repeats an index and misses another.
TableInRangeNotBijective ==
    /\ call = "generatePermutationTable" =>
          /\ Len(ret) = arg
          /\ \A i \in 1..arg : ret[i] \in 1..arg
    /\ call = "idle" =>
          \A length \in TableLengths :
             \E d \in TableDraws(length) :
                NotBijection(generatePermutationTable(length, d[1], d[2]), length)

\* generatePermutationTable(10) has returned a table that repeats an index
\* and misses another
TableInRangeNotBijectiveWitness ==
    /\ call = "generatePermutationTable"
    /\ arg = 10
    /\ Len(ret) = 10
    /\ NotBijection(ret, 10)

\* every element is a bit: no read went outside an array, nothing failed
AllBits(bits) == \A i \in DOMAIN bits : bits[i] \in {0, 1}

\* C13: for a string with a code unit of 256 or more, encryptText and
\* decryptText of its result complete (every block comes out as 8 bits,
\* every character of the results is a code 0..255), and the string that
\* comes back is not the one that went in.
WideTextCorrupted ==
    /\ (call = "encryptText" /\ ~SingleByte(arg)) =>
          LET encryptedBinary == encryptBlocks(This, stringToBinary(arg))
          IN  /\ AllBits(encryptedBinary)
              /\ Len(encryptedBinary) % 8 = 0
              /\ SingleByte(ret)
    /\ (call = "decryptText" /\ orig # None /\ ~SingleByte(orig)) =>
          LET decryptedBinary == decryptBlocks(This, stringToBinary(arg))
          IN  /\ AllBits(decryptedBinary)
              /\ Len(decryptedBinary) % 8 = 0
              /\ SingleByte(ret)
              /\ ret # orig

\* a text of one code unit beyond a byte and one within has come back from
\* decryptText(encryptText(.)) longer than it went in
WideTextCorruptedWitness ==
    /\ call = "decryptText" /\ orig # None
    /\ Len(orig) = 2
    /\ orig[1] = 118 /\ orig[2] = 300
    /\ SingleByte(ret)
    /\ Len(ret) > Len(orig)

\* the 8 bits of a code 0..255, most significant first
ByteBits(c) == [i \in 1..8 |-> (c \div (2 ^ (8 - i))) % 2]

\* the code 8 bits stand for
ByteCode(bits) ==
    128 * bits[1] + 64 * bits[2] + 32 * bits[3] + 16 * bits[4]
        + 8 * bits[5] + 4 * bits[6] + 2 * bits[7] + bits[8]

\* C14: for a string of code units 0..255, encryptText returns as many
\* characters, each a code 0..255, the i-th being the code of encrypt of
\* the 8 bits of the i-th character, so equal characters give equal
\* characters; the same holds of decryptText with decrypt.
TextBlockwise ==
    /\ (call = "encryptText" /\ SingleByte(arg)) =>
          /\ Len(ret) = Len(arg)
          /\ \A i \in DOMAIN arg :
                /\ ret[i] \in 0..255
                /\ ret[i] = ByteCode(encrypt(This, ByteBits(arg[i])))
          /\ \A i, j \in DOMAIN arg : arg[i] = arg[j] => ret[i] = ret[j]
    /\ (call = "decryptText" /\ SingleByte(arg)) =>
          /\ Len(ret) = Len(arg)
          /\ \A i \in DOMAIN arg :
                /\ ret[i] \in 0..255
                /\ ret[i] = ByteCode(decrypt(This, ByteBits(arg[i])))
          /\ \A i, j \in DOMAIN arg : arg[i] = arg[j] => ret[i] = ret[j]

\* encryptText has returned two different characters for a text of two
\* different single-byte characters
TextBlockwiseWitness ==
    /\ call = "encryptText"
    /\ Len(arg) = 2 /\ SingleByte(arg)
    /\ arg[1] # arg[2]
    /\ Len(ret) = 2
    /\ ret[1] # ret[2]
    /\ ret # arg

\* the concatenation P8 is applied to: both halves of the P10-permuted key
\* k, each shifted left by n
ShiftedHalves(k, p10, n) ==
    LET left  == [i \in 1..5 |-> k[p10[i]]]
        right == [i \in 1..5 |-> k[p10[i + 5]]]
        l == LS(left, n)
        r == LS(right, n)
    IN  [i \in 1..10 |-> IF i <= 5 THEN l[i] ELSE r[i - 5]]

AgreeOnFirst8(a, b) == \A i \in 1..8 : a[i] = b[i]

\* C15: every entry of P8 is in 1..8, so positions 9 and 10 of the shifted
\* concatenation reach neither subkey: a master key whose concatenation
\* agrees with that of the instance's key on positions 1..8 at the first
\* step has the same key1, at the second step the same key2, and at both
\* steps the same pair.
LastTwoBitsIgnored ==
    call = "otherKeySubKeys" =>
        LET same1 == AgreeOnFirst8(ShiftedHalves(key, P10, 1),
                                   ShiftedHalves(arg, P10, 1))
            same2 == AgreeOnFirst8(ShiftedHalves(key, P10, 3),
                                   ShiftedHalves(arg, P10, 3))
        IN  /\ \A i \in 1..8 : P8[i] \in 1..8
            /\ same1 => ret.key1 = subKeys.key1
            /\ same2 => ret.key2 = subKeys.key2
            /\ (same1 /\ same2) => ret = subKeys

\* the schedule has run on a key whose first concatenation differs from
\* that of the instance's key in positions 9 or 10 only, under a P10 that
\* is a bijection, and key1 is the same
LastTwoBitsIgnoredWitness ==
    /\ call = "otherKeySubKeys"
    /\ ~HasRepeat(P10)
    /\ AgreeOnFirst8(ShiftedHalves(key, P10, 1), ShiftedHalves(arg, P10, 1))
    /\ ShiftedHalves(key, P10, 1) # ShiftedHalves(arg, P10, 1)
    /\ ret.key1 = subKeys.key1
    /\ ret.key2 # subKeys.key2

\* C16: on an instance encrypt is a bijection on the 256 blocks and decrypt
\* is its inverse on the other side too: encrypting what decrypt returned for
\* a block gives the block back, and no two blocks have the same ciphertext
\* (the 256 blocks have 256 distinct ciphertexts, which are all the blocks).
EncryptBijective ==
    /\ call = "encryptDecrypted" => ret = orig
    /\ call = "idle" =>
          LET image == {encrypt(This, B) : B \in Blocks}
          IN  /\ Cardinality(image) = Cardinality(Blocks)
              /\ image = Blocks

\* encrypt has run on the result of decrypt, which was not the block itself,
\* on an instance whose P4 and P8 are not bijections
EncryptBijectiveWitness ==
    /\ call = "encryptDecrypted"
    /\ arg # orig
    /\ ret = orig
    /\ HasRepeat(P4)
    /\ HasRepeat(P8)

====
